---------------------------- MODULE Spec2Model ----------------------------
(***************************************************************************)
(* Model of the Home Telemetry API (telemetry_api/telemetry_readers.py and *)
(* telemetry_api/main.py).                                                 *)
(*                                                                         *)
(* The service is stateless: every request re-reads its sources.  A state  *)
(* of the model is the last operation handled, the content of the sources  *)
(* it read (input), the readers and external commands it invoked, in order *)
(* (calls), and what it returned (result).                                 *)
(*                                                                         *)
(* Text is modelled after tokenisation: a file is a sequence of lines, a   *)
(* line a sequence of whitespace-separated tokens, a token either the      *)
(* decimal text of an integer (Num), such text followed by one '.' (Dot),  *)
(* or text that int() rejects (Txt).  Floats are fixed point: a value      *)
(* rounded to k decimals is the integer number of 10^-k units, rounded     *)
(* half to even as Python's round() does.                                  *)
(***************************************************************************)
EXTENDS Integers, Sequences, FiniteSets, TLC

VARIABLES op, input, calls, result

vars == <<op, input, calls, result>>

(***************************************************************************)
(* Bounds of the model.                                                    *)
(***************************************************************************)
MaxIfaces == 2      \* interface lines in /proc/net/dev
MaxBytes == 2       \* largest byte counter on an interface line
MaxTicks == 2       \* largest counter on the cpu line of /proc/stat
MaxMemLines == 2    \* lines in /proc/meminfo
MaxMb == 2          \* largest /proc/meminfo value, in units of 1024 kB
MaxStatus == 7      \* largest throttling status below 0x50000, and its negation
MaxIwLines == 1     \* lines in the output of iwconfig

(***************************************************************************)
(* Tokens, optional values, outcomes of a call.                            *)
(***************************************************************************)
Num(n) == [k |-> "num", v |-> n]
Dot(n) == [k |-> "dot", v |-> n]
Txt == [k |-> "txt", v |-> 0]

None == <<>>
Some(x) == <<x>>

\* A call either returns a value or raises; val of a raise is never read.
Ret(x) == [exc |-> "", val |-> x]
Raise(e) == [exc |-> e, val |-> <<>>]
Raised(r) == r.exc # ""

\* int(s): the integer a token spells, ValueError when it spells none.
int(t) == IF t.k = "num" THEN Ret(t.v) ELSE Raise("ValueError")

\* seq[i] of Python (0-based), IndexError past the end.
Index(seq, i) == IF i < Len(seq) THEN Ret(seq[i + 1]) ELSE Raise("IndexError")

\* lines[n:]
Drop(seq, n) == SubSeq(seq, n + 1, Len(seq))

\* The nearest integer to n / d, ties to the even one (d # 0).
RoundDivPos(n, d) ==
    LET q == n \div d
        r == n % d
    IN  IF 2 * r < d THEN q
        ELSE IF 2 * r > d THEN q + 1
        ELSE IF q % 2 = 0 THEN q ELSE q + 1

RoundDiv(n, d) == IF d > 0 THEN RoundDivPos(n, d) ELSE RoundDivPos(-n, -d)

\* The first of the indices S of a loop that stops at its first match, 0 when
\* there is none.
First(S) == IF S = {} THEN 0 ELSE CHOOSE i \in S : \A j \in S : i <= j

(***************************************************************************)
(* get_network_stats: /proc/net/dev.                                       *)
(* A line is [name, colon, data]: the text before the first ':' stripped   *)
(* (the whole line when it holds no ':'), whether it holds a ':', and the  *)
(* tokens after it.                                                        *)
(***************************************************************************)
interfaces == {"wlan0", "eth0", "en0"}

NoInterface == [interface |-> "none", bytes_recv |-> 0, bytes_sent |-> 0]

\* line.split(':')[1].split(), then the dictionary built from data[0], data[8].
InterfaceEntry(line) ==
    IF ~line.colon THEN Raise("IndexError")
    ELSE LET d0 == Index(line.data, 0)
             d8 == Index(line.data, 8)
         IN  IF Raised(d0) THEN d0
             ELSE IF Raised(int(d0.val)) THEN int(d0.val)
             ELSE IF Raised(d8) THEN d8
             ELSE IF Raised(int(d8.val)) THEN int(d8.val)
             ELSE Ret([interface |-> line.name,
                       bytes_recv |-> int(d0.val).val,
                       bytes_sent |-> int(d8.val).val])

IsPreferred(line) == line.name \in interfaces
IsNotLoopback(line) == line.name # "lo"

\* The first pass over the preferred names left out.
NetworkStatsBody_NoPreference(file) ==
    IF ~file.exists THEN Raise("FileNotFoundError")
    ELSE LET lines == Drop(file.lines, 2)
             j == First({n \in 1..Len(lines) : IsNotLoopback(lines[n])})
         IN  IF j # 0 THEN InterfaceEntry(lines[j]) ELSE Ret(NoInterface)

NetworkStatsBody(file) ==
    IF ~file.exists THEN Raise("FileNotFoundError")
    ELSE LET lines == Drop(file.lines, 2)
             i == First({n \in 1..Len(lines) : IsPreferred(lines[n])})
             j == First({n \in 1..Len(lines) : IsNotLoopback(lines[n])})
         IN  IF i # 0 THEN InterfaceEntry(lines[i])
             ELSE IF j # 0 THEN InterfaceEntry(lines[j])
             ELSE Ret(NoInterface)

NetworkStatsCaught == {"FileNotFoundError", "IndexError", "ValueError"}

get_network_stats(file) ==
    LET r == NetworkStatsBody(file)
    IN  IF r.exc \in NetworkStatsCaught THEN Ret(NoInterface) ELSE r

(***************************************************************************)
(* Contents of /proc/net/dev.                                              *)
(***************************************************************************)
HeaderLine == [name |-> "Inter-|", colon |-> FALSE, data |-> <<>>]

\* n counters after the colon, the 1st rx and the 9th tx.
Counters(n, rx, tx) ==
    [i \in 1..n |-> IF i = 1 THEN rx ELSE IF i = 9 THEN tx ELSE Num(0)]

IfaceNames == {"wlan0", "eth0", "en0", "lo", "usb0"}

GoodCounters == {Counters(16, Num(rx), Num(tx)) : rx \in 1..MaxBytes, tx \in 1..MaxBytes}

BadCounters == {Counters(8, Num(1), Num(1)), Counters(16, Txt, Num(1)),
                Counters(16, Num(1), Txt), <<>>}

IfaceLines ==
    {[name |-> n, colon |-> TRUE, data |-> d] :
        n \in IfaceNames, d \in GoodCounters \cup BadCounters}
    \cup {[name |-> n, colon |-> FALSE, data |-> <<>>] : n \in IfaceNames}

SeqsUpTo(S, n) == UNION {[1..m -> S] : m \in 0..n}

NetDevFiles ==
    {[exists |-> FALSE, lines |-> <<>>], [exists |-> TRUE, lines |-> <<>>],
     [exists |-> TRUE, lines |-> <<HeaderLine>>]}
    \cup {[exists |-> TRUE, lines |-> <<HeaderLine, HeaderLine>> \o ls] :
            ls \in SeqsUpTo(IfaceLines, MaxIfaces)}

(***************************************************************************)
(* get_cpu_temperature: /sys/class/thermal/thermal_zone0/temp.             *)
(* The file is [exists, text]: text is the token f.read().strip() leaves.  *)
(* The result is in thousandths of a degree (millidegrees / 1000.0).       *)
(***************************************************************************)
CpuTemperatureBody(file) ==
    IF ~file.exists THEN Ret(None)
    ELSE LET temp_millidegrees == int(file.text)
         IN  IF Raised(temp_millidegrees) THEN temp_millidegrees
             ELSE Ret(Some(temp_millidegrees.val))

CpuTemperatureCaught == {"FileNotFoundError", "ValueError", "PermissionError"}

get_cpu_temperature(file) ==
    LET r == CpuTemperatureBody(file)
    IN  IF r.exc \in CpuTemperatureCaught THEN Ret(None) ELSE r

ThermalFiles ==
    {[exists |-> FALSE, text |-> Txt], [exists |-> TRUE, text |-> Txt],
     [exists |-> TRUE, text |-> Num(45678)], [exists |-> TRUE, text |-> Num(-1000)]}

(***************************************************************************)
(* get_cpu_usage: the first line of /proc/stat, read twice.                *)
(* A sample is [exists, parts]: parts are the tokens of the first line,    *)
(* parts[0] the 'cpu' label.  The result is in tenths of a percent.        *)
(***************************************************************************)
RECURSIVE SumInts(_)
\* sum(int(x) for x in tokens)
SumInts(tokens) ==
    IF tokens = <<>> THEN Ret(0)
    ELSE LET x == int(Head(tokens))
             rest == SumInts(Tail(tokens))
         IN  IF Raised(x) THEN x
             ELSE IF Raised(rest) THEN rest
             ELSE Ret(x.val + rest.val)

parse_stat(parts) ==
    IF Len(parts) < 5 THEN Ret([total |-> 0, idle |-> 0])
    ELSE LET total == SumInts(Drop(parts, 1))
             idle == int(parts[5])
         IN  IF Raised(total) THEN total
             ELSE IF Raised(idle) THEN idle
             ELSE Ret([total |-> total.val, idle |-> idle.val])

CpuUsageBody(stat) ==
    IF ~stat.first.exists \/ ~stat.second.exists THEN Raise("FileNotFoundError")
    ELSE LET s1 == parse_stat(stat.first.parts)
             s2 == parse_stat(stat.second.parts)
         IN  IF Raised(s1) THEN s1
             ELSE IF Raised(s2) THEN s2
             ELSE LET diff_total == s2.val.total - s1.val.total
                      diff_idle == s2.val.idle - s1.val.idle
                  IN  IF diff_total = 0 THEN Ret(0)
                      ELSE Ret(RoundDiv((diff_total - diff_idle) * 1000, diff_total))

\* except Exception: every exception is caught.
get_cpu_usage(stat) ==
    LET r == CpuUsageBody(stat)
    IN  IF Raised(r) THEN Ret(0) ELSE r

\* cpu user nice system idle iowait irq softirq
StatLine(user, system, idle) ==
    <<Txt, Num(user), Num(0), Num(system), Num(idle), Num(0), Num(0), Num(0)>>

StatLines ==
    {StatLine(u, s, i) : u \in 0..MaxTicks, s \in 0..MaxTicks, i \in 0..MaxTicks}
    \cup {<<>>, <<Txt, Num(1), Num(1)>>, <<Txt, Num(1), Txt, Num(1), Num(1)>>}

StatReads ==
    {[exists |-> FALSE, parts |-> <<>>]} \cup {[exists |-> TRUE, parts |-> l] : l \in StatLines}

StatSamples == {[first |-> a, second |-> b] : a \in StatReads, b \in StatReads}

(***************************************************************************)
(* get_memory_info: /proc/meminfo.                                         *)
(* A line is [key, colons, value]: the text before the first ':' stripped, *)
(* the number of ':' in the line, the tokens after the first ':'.  The     *)
(* results are in hundredths (of a MB, of a percent).                      *)
(***************************************************************************)
NoMemory == [total_mb |-> 0, free_mb |-> 0, available_mb |-> 0,
             used_mb |-> 0, used_percent |-> 0]

RECURSIVE MemData(_, _)
\* The loop over the lines: mem_data after the last line, or the exception.
MemData(lines, mem_data) ==
    IF lines = <<>> THEN Ret(mem_data)
    ELSE LET line == Head(lines)
         IN  IF line.colons # 1 THEN MemData(Tail(lines), mem_data)
             ELSE LET first == Index(line.value, 0)
                  IN  IF Raised(first) THEN first
                      ELSE IF Raised(int(first.val)) THEN int(first.val)
                      ELSE MemData(Tail(lines),
                                   [k \in DOMAIN mem_data \cup {line.key} |->
                                       IF k = line.key THEN int(first.val).val
                                       ELSE mem_data[k]])

\* round(kb / 1024, 2)
KbToMb(kb) == RoundDiv(kb * 100, 1024)

MemoryUsed(mem) ==
    IF mem.total_mb > 0 /\ mem.available_mb > 0
    THEN LET used_mb == mem.total_mb - mem.available_mb
         IN  [mem EXCEPT !.used_mb = used_mb,
                         !.used_percent = RoundDiv(used_mb * 10000, mem.total_mb)]
    ELSE mem

MemoryInfoBody(file) ==
    IF ~file.exists THEN Ret(NoMemory)
    ELSE LET mem_data == MemData(file.lines, <<>>)
         IN  IF Raised(mem_data) THEN mem_data
             ELSE LET d == mem_data.val
                      Field(key) == IF key \in DOMAIN d THEN KbToMb(d[key]) ELSE 0
                  IN  Ret(MemoryUsed([NoMemory EXCEPT
                             !.total_mb = Field("MemTotal"),
                             !.free_mb = Field("MemFree"),
                             !.available_mb = Field("MemAvailable")]))

MemoryInfoCaught == {"FileNotFoundError", "ValueError", "PermissionError"}

get_memory_info(file) ==
    LET r == MemoryInfoBody(file)
    IN  IF r.exc \in MemoryInfoCaught THEN Ret(NoMemory) ELSE r

MemKeys == {"MemTotal", "MemFree", "MemAvailable"}

MemKb == {-1024, 0, 5} \cup {1024 * k : k \in 1..MaxMb}

MemLines ==
    {[key |-> k, colons |-> 1, value |-> <<Num(v), Txt>>] : k \in MemKeys, v \in MemKb}
    \cup {[key |-> "Key", colons |-> 1, value |-> <<>>],
          [key |-> "Buffers", colons |-> 1, value |-> <<Txt, Txt>>],
          [key |-> "Buffers", colons |-> 1, value |-> <<Num(7), Txt>>],
          [key |-> "", colons |-> 0, value |-> <<>>],
          [key |-> "MemTotal", colons |-> 2, value |-> <<Num(1024)>>]}

MemInfoFiles ==
    {[exists |-> FALSE, lines |-> <<>>]}
    \cup {[exists |-> TRUE, lines |-> ls] : ls \in SeqsUpTo(MemLines, MaxMemLines)}

(***************************************************************************)
(* get_throttling_status: vcgencmd get_throttled.                          *)
(* A command run is [status, out]: "notfound" (FileNotFoundError),         *)
(* "failed" (a non-zero exit, CalledProcessError) or "ok" with its output. *)
(* The output is [eq, hex]: whether it holds '=' and the text between the  *)
(* first '=' and the next, stripped, a token read in base 16.              *)
(***************************************************************************)
NoThrottling == [is_throttled |-> FALSE, under_voltage |-> FALSE,
                 frequency_capped |-> FALSE, overheated |-> FALSE]

\* The bit's position taken for the mask: bit 0 tested with 0x0, bit 1 with 0x1,
\* bit 2 with 0x2.
BitSet_Value(status, bit) == bit > 0 /\ (status \div bit) % 2 = 1

\* bool(status & mask) for mask = 2^bit, on Python's unbounded integers.
BitSet(status, bit) == (status \div (2 ^ bit)) % 2 = 1

check_output(cmd) ==
    IF cmd.status = "notfound" THEN Raise("FileNotFoundError")
    ELSE IF cmd.status = "failed" THEN Raise("CalledProcessError")
    ELSE Ret(cmd.out)

IsThrottled(status) == status > 0

ThrottlingStatusBody(cmd) ==
    LET output == check_output(cmd)
    IN  IF Raised(output) THEN output
        ELSE IF ~output.val.eq THEN Ret(NoThrottling)
        ELSE LET status == int(output.val.hex)
             IN  IF Raised(status) THEN status
                 ELSE Ret([is_throttled |-> IsThrottled(status.val),
                           under_voltage |-> BitSet(status.val, 0),
                           frequency_capped |-> BitSet(status.val, 1),
                           overheated |-> BitSet(status.val, 2)])

ThrottlingStatusCaught == {"CalledProcessError", "FileNotFoundError"}

get_throttling_status(cmd) ==
    LET r == ThrottlingStatusBody(cmd)
    IN  IF r.exc \in ThrottlingStatusCaught THEN Ret(NoThrottling) ELSE r

\* 0x50000
Throttled50000 == 327680

ThrottleStatuses ==
    (-MaxStatus..MaxStatus) \cup {Throttled50000 + s : s \in 0..MaxStatus}

VcgencmdRuns ==
    {[status |-> "notfound", out |-> <<>>], [status |-> "failed", out |-> <<>>],
     [status |-> "ok", out |-> [eq |-> FALSE, hex |-> Txt]],
     [status |-> "ok", out |-> [eq |-> TRUE, hex |-> Txt]]}
    \cup {[status |-> "ok", out |-> [eq |-> TRUE, hex |-> Num(s)]] : s \in ThrottleStatuses}

(***************************************************************************)
(* get_wifi_signal: /proc/net/wireless.                                    *)
(* The file is [exists, lines], a line the sequence of its tokens.  The    *)
(* quality is in hundredths of a percent.                                  *)
(***************************************************************************)
NoWifi == [signal_level |-> None, signal_quality |-> None]

\* A reader that returns its result dictionary from its except clause keeps
\* what it had stored when the exception was raised: Fail carries it.
Fail(e, partial) == [exc |-> e, val |-> partial]

\* s.rstrip('.')
rstrip(t) == IF t.k = "dot" THEN Num(t.v) ELSE t

\* round((quality / 70.0) * 100, 2)
QualityOf70(quality) == RoundDiv(quality * 10000, 70)

WifiSignalBody(file) ==
    IF ~file.exists \/ Len(file.lines) <= 2 THEN Ret(NoWifi)
    ELSE LET data_line == file.lines[3]
         IN  IF Len(data_line) < 4 THEN Ret(NoWifi)
             ELSE LET quality == int(rstrip(data_line[3]))
                      level == int(rstrip(data_line[4]))
                      withQuality == [NoWifi EXCEPT
                          !.signal_quality = Some(QualityOf70(quality.val))]
                  IN  IF Raised(quality) THEN Fail(quality.exc, NoWifi)
                      ELSE IF Raised(level) THEN Fail(level.exc, withQuality)
                      ELSE Ret([withQuality EXCEPT !.signal_level = Some(level.val)])

WifiSignalCaught == {"FileNotFoundError", "ValueError", "IndexError", "PermissionError"}

get_wifi_signal(file) ==
    LET r == WifiSignalBody(file)
    IN  IF r.exc \in WifiSignalCaught THEN Ret(r.val)
        ELSE IF Raised(r) THEN Raise(r.exc) ELSE r

QualityValues == {0, 35, 70}
LevelValues == {-50, -56}

WirelessDataLines ==
    {<<Txt, Num(0), q, l, Dot(-256)>> :
        q \in {Dot(x) : x \in QualityValues} \cup {Num(35), Txt},
        l \in {Dot(x) : x \in LevelValues} \cup {Num(-50), Txt}}
    \cup {<<Txt, Num(0), Dot(35)>>, <<>>}

WirelessFiles ==
    {[exists |-> FALSE, lines |-> <<>>], [exists |-> TRUE, lines |-> <<>>],
     [exists |-> TRUE, lines |-> <<<<Txt>>, <<Txt>>>>]}
    \cup {[exists |-> TRUE, lines |-> <<<<Txt>>, <<Txt>>, d>>] : d \in WirelessDataLines}

(***************************************************************************)
(* get_wifi_signal_iwconfig: the output of iwconfig.                       *)
(* A line of the output is [lq, sl].  lq is None when the line does not    *)
(* hold 'Link Quality', else Some([eq, part]): whether 'Link Quality=' is  *)
(* in the line, and the first token after it, None when nothing follows,   *)
(* else Some([slashes, cur, max]), the number of '/' in the token and the  *)
(* texts around the first.  sl is the same for 'Signal level', its part    *)
(* Some(token).                                                            *)
(***************************************************************************)
LinkQuality(lq, res) ==
    IF ~lq.eq THEN Ret(res)
    ELSE IF lq.part = None THEN Fail("IndexError", res)
    ELSE LET quality_part == lq.part[1]
             current == int(quality_part.cur)
             maximum == int(quality_part.max)
         IN  IF quality_part.slashes = 0 THEN Ret(res)
             ELSE IF quality_part.slashes > 1 THEN Fail("ValueError", res)
             ELSE IF Raised(current) THEN Fail(current.exc, res)
             ELSE IF Raised(maximum) THEN Fail(maximum.exc, res)
             ELSE IF maximum.val = 0 THEN Fail("ZeroDivisionError", res)
             ELSE Ret([res EXCEPT !.signal_quality =
                          Some(RoundDiv(current.val * 10000, maximum.val))])

SignalLevel(sl, res) ==
    IF ~sl.eq THEN Ret(res)
    ELSE IF sl.part = None THEN Fail("IndexError", res)
    ELSE LET signal == int(sl.part[1])
         IN  IF Raised(signal) THEN Fail(signal.exc, res)
             ELSE Ret([res EXCEPT !.signal_level = Some(signal.val)])

RECURSIVE IwconfigScan(_, _)
\* for line in output.split('\n')
IwconfigScan(lines, res) ==
    IF lines = <<>> THEN Ret(res)
    ELSE LET line == Head(lines)
             q == IF line.lq = None THEN Ret(res) ELSE LinkQuality(line.lq[1], res)
             l == IF line.sl = None THEN q ELSE SignalLevel(line.sl[1], q.val)
         IN  IF Raised(q) THEN q
             ELSE IF Raised(l) THEN l
             ELSE IwconfigScan(Tail(lines), l.val)

WifiSignalIwconfigBody(cmd) ==
    LET output == check_output(cmd)
    IN  IF Raised(output) THEN Fail(output.exc, NoWifi)
        ELSE IwconfigScan(output.val, NoWifi)

WifiSignalIwconfigCaught == {"CalledProcessError", "FileNotFoundError", "ValueError"}

get_wifi_signal_iwconfig(cmd) ==
    LET r == WifiSignalIwconfigBody(cmd)
    IN  IF r.exc \in WifiSignalIwconfigCaught THEN Ret(r.val)
        ELSE IF Raised(r) THEN Raise(r.exc) ELSE r

Ratio(cur, max) == Some([slashes |-> 1, cur |-> cur, max |-> max])

LinkQualities ==
    {[eq |-> FALSE, part |-> None], [eq |-> TRUE, part |-> None],
     [eq |-> TRUE, part |-> Some([slashes |-> 0, cur |-> Txt, max |-> Txt])],
     [eq |-> TRUE, part |-> Some([slashes |-> 2, cur |-> Num(1), max |-> Num(2)])],
     [eq |-> TRUE, part |-> Ratio(Num(60), Num(70))],
     [eq |-> TRUE, part |-> Ratio(Num(35), Num(70))],
     [eq |-> TRUE, part |-> Ratio(Num(0), Num(0))],
     [eq |-> TRUE, part |-> Ratio(Txt, Num(70))],
     [eq |-> TRUE, part |-> Ratio(Num(60), Txt)]}

SignalLevels ==
    {[eq |-> FALSE, part |-> None], [eq |-> TRUE, part |-> None],
     [eq |-> TRUE, part |-> Some(Txt)]}
    \cup {[eq |-> TRUE, part |-> Some(Num(x))] : x \in LevelValues}

IwconfigLines ==
    {[lq |-> q, sl |-> l] :
        q \in {None} \cup {Some(x) : x \in LinkQualities},
        l \in {None} \cup {Some(x) : x \in SignalLevels}}

IwconfigRuns ==
    {[status |-> "notfound", out |-> <<>>], [status |-> "failed", out |-> <<>>]}
    \cup {[status |-> "ok", out |-> ls] : ls \in SeqsUpTo(IwconfigLines, MaxIwLines)}

(***************************************************************************)
(* get_uptime: /proc/uptime, [exists, parts]; seconds.                     *)
(***************************************************************************)
NoUptime == [uptime_seconds |-> 0, idle_seconds |-> 0]

\* float(s): an integer text, with or without a trailing '.', is a float.
float(t) == IF t.k \in {"num", "dot"} THEN Ret(t.v) ELSE Raise("ValueError")

UptimeBody(file) ==
    IF ~file.exists \/ Len(file.parts) < 2 THEN Ret(NoUptime)
    ELSE LET uptime == float(file.parts[1])
             idle == float(file.parts[2])
             withUptime == [NoUptime EXCEPT !.uptime_seconds = uptime.val]
         IN  IF Raised(uptime) THEN Fail(uptime.exc, NoUptime)
             ELSE IF Raised(idle) THEN Fail(idle.exc, withUptime)
             ELSE Ret([withUptime EXCEPT !.idle_seconds = idle.val])

UptimeCaught == {"FileNotFoundError", "ValueError", "PermissionError"}

get_uptime(file) ==
    LET r == UptimeBody(file)
    IN  IF r.exc \in UptimeCaught THEN Ret(r.val)
        ELSE IF Raised(r) THEN Raise(r.exc) ELSE r

UptimeFiles ==
    {[exists |-> FALSE, parts |-> <<>>], [exists |-> TRUE, parts |-> <<>>],
     [exists |-> TRUE, parts |-> <<Num(7200)>>],
     [exists |-> TRUE, parts |-> <<Num(7200), Num(3600)>>],
     [exists |-> TRUE, parts |-> <<Dot(90), Txt>>],
     [exists |-> TRUE, parts |-> <<Txt, Num(3600)>>]}

(***************************************************************************)
(* get_load_average: os.getloadavg(), [ok, load] with the three loads in   *)
(* thousandths; the result is in hundredths.                               *)
(***************************************************************************)
get_load_average(os) ==
    IF os.ok
    THEN Ret([load_1min |-> RoundDiv(os.load[1], 10),
              load_5min |-> RoundDiv(os.load[2], 10),
              load_15min |-> RoundDiv(os.load[3], 10)])
    ELSE Ret([load_1min |-> 0, load_5min |-> 0, load_15min |-> 0])

LoadAverages == {[ok |-> FALSE, load |-> <<0, 0, 0>>], [ok |-> TRUE, load |-> <<1234, 515, 85>>]}

(***************************************************************************)
(* get_disk_usage: os.statvfs('/'), [ok, f_blocks, f_frsize, f_bavail].    *)
(* Sizes in hundredths of a GB, percent in tenths.                         *)
(***************************************************************************)
\* 1024 ** 3
Gb == 1073741824

get_disk_usage(stat) ==
    IF ~stat.ok THEN Ret([total_gb |-> 0, used_gb |-> 0, free_gb |-> 0, percent |-> 0])
    ELSE LET total == stat.f_blocks * stat.f_frsize
             free == stat.f_bavail * stat.f_frsize
             used == total - free
         IN  Ret([total_gb |-> RoundDiv(total * 100, Gb),
                  used_gb |-> RoundDiv(used * 100, Gb),
                  free_gb |-> RoundDiv(free * 100, Gb),
                  percent |-> IF total > 0 THEN RoundDiv(used * 1000, total) ELSE 0])

StatVfs ==
    {[ok |-> FALSE, f_blocks |-> 0, f_frsize |-> 0, f_bavail |-> 0],
     [ok |-> TRUE, f_blocks |-> 0, f_frsize |-> 4096, f_bavail |-> 0],
     [ok |-> TRUE, f_blocks |-> 500, f_frsize |-> 4096, f_bavail |-> 100]}

(***************************************************************************)
(* get_system_info: [ok, probe]: whether the host facilities answer, and   *)
(* whether the UDP probe socket yields a local address.                    *)
(***************************************************************************)
get_system_info(host) ==
    IF ~host.ok
    THEN Ret([hostname |-> "Unknown", os |-> "Unknown", kernel |-> "Unknown",
              ip_address |-> "Unknown"])
    ELSE Ret([hostname |-> "raspberrypi", os |-> "Linux 6.1", kernel |-> "#1 SMP",
              ip_address |-> IF host.probe THEN "192.168.1.20" ELSE "127.0.0.1"])

SystemHosts == {[ok |-> FALSE, probe |-> FALSE], [ok |-> TRUE, probe |-> FALSE],
                [ok |-> TRUE, probe |-> TRUE]}

(***************************************************************************)
(* get_all_telemetry.  env holds the content of every source at the time   *)
(* of the call.  A step is [fn, ret]: a reader and what its call returned  *)
(* or raised; the steps run in the order of the code and stop at the first *)
(* that raises.                                                            *)
(***************************************************************************)
Step(fn, ret) == [fn |-> fn, ret |-> ret]

\* The first step that raised, 0 when none did.
FirstRaise(steps) == First({n \in 1..Len(steps) : Raised(steps[n].ret)})

\* The steps that ran: all of them, or those up to the first that raised.
Ran(steps) ==
    LET n == FirstRaise(steps)
    IN  IF n = 0 THEN steps ELSE SubSeq(steps, 1, n)

\* What the caller of the steps gets: value, or the exception that stopped them.
Outcome(steps, value) ==
    LET n == FirstRaise(steps)
    IN  IF n = 0 THEN Ret(value) ELSE Raise(steps[n].ret.exc)

\* The fallback decided on the quality instead of the level.
NeedsFallback_Quality(wifi_data) == wifi_data.signal_quality = None

\* if wifi_data["signal_level"] is None
NeedsFallback(wifi_data) == wifi_data.signal_level = None

\* round(uptime_seconds / 3600, 2)
UptimeHours(uptime_seconds) == RoundDiv(uptime_seconds * 100, 3600)

WifiSteps(env) ==
    LET primary == get_wifi_signal(env.wireless)
    IN  <<Step("get_wifi_signal", primary)>>
        \o (IF ~Raised(primary) /\ NeedsFallback(primary.val)
            THEN <<Step("get_wifi_signal_iwconfig", get_wifi_signal_iwconfig(env.iwconfig))>>
            ELSE <<>>)

TelemetrySteps(env) ==
    WifiSteps(env)
    \o <<Step("get_uptime", get_uptime(env.uptime)),
         Step("get_memory_info", get_memory_info(env.meminfo)),
         Step("get_load_average", get_load_average(env.loadavg)),
         Step("get_disk_usage", get_disk_usage(env.statvfs)),
         Step("get_system_info", get_system_info(env.host)),
         Step("get_cpu_usage", get_cpu_usage(env.stat)),
         Step("get_throttling_status", get_throttling_status(env.vcgencmd)),
         Step("get_network_stats", get_network_stats(env.netdev)),
         Step("get_cpu_temperature", get_cpu_temperature(env.thermal))>>

\* The dictionary get_all_telemetry returns when no reader raised.
Snapshot(steps) ==
    LET n == Len(steps)
        wifi_data == steps[n - 9].ret.val
        uptime_data == steps[n - 8].ret.val
    IN  [cpu |-> [temperature_celsius |-> steps[n].ret.val,
                  usage_percent |-> steps[n - 3].ret.val],
         wifi |-> [signal_level_dbm |-> wifi_data.signal_level,
                   signal_quality_percent |-> wifi_data.signal_quality],
         system |-> [uptime_seconds |-> uptime_data.uptime_seconds,
                     uptime_hours |-> UptimeHours(uptime_data.uptime_seconds),
                     load_average |-> steps[n - 6].ret.val,
                     info |-> steps[n - 4].ret.val,
                     throttling |-> steps[n - 2].ret.val],
         memory |-> steps[n - 7].ret.val,
         disk |-> steps[n - 5].ret.val,
         network |-> steps[n - 1].ret.val]

get_all_telemetry(env) ==
    LET steps == TelemetrySteps(env)
    IN  [ran |-> Ran(steps),
         ret |-> IF FirstRaise(steps) = 0
                 THEN Ret(Snapshot(steps))
                 ELSE Outcome(steps, <<>>)]

(***************************************************************************)
(* The endpoints of main.py.  A handler returns [ran, ret]: the readers or *)
(* commands it invoked and its return value or exception; an HTTPException *)
(* is an exception whose val is [status_code, detail].                     *)
(***************************************************************************)
HTTPException(status_code, detail) ==
    [exc |-> "HTTPException", val |-> [status_code |-> status_code, detail |-> detail]]

\* FastAPI around a handler: a return is HTTP 200 with the returned body, an
\* HTTPException its status code and detail, any other exception HTTP 500
\* "Internal Server Error".
Http(r) ==
    IF r.exc = "" THEN [code |-> 200, body |-> r.val, uncaught |-> ""]
    ELSE IF r.exc = "HTTPException"
    THEN [code |-> r.val.status_code, body |-> [detail |-> r.val.detail], uncaught |-> ""]
    ELSE [code |-> 500, body |-> [detail |-> "Internal Server Error"], uncaught |-> r.exc]

\* try: data = get_all_telemetry() ... except Exception as e: ...
TelemetryEnvelope(all) ==
    IF Raised(all.ret)
    THEN Ret([status |-> "error", data |-> None, message |-> Some(all.ret.exc)])
    ELSE Ret([status |-> "success", data |-> Some(all.ret.val), message |-> None])

get_telemetry(env) ==
    LET all == get_all_telemetry(env)
    IN  [ran |-> all.ran, ret |-> TelemetryEnvelope(all)]

get_cpu(env) ==
    LET steps == <<Step("get_cpu_temperature", get_cpu_temperature(env.thermal)),
                   Step("get_cpu_usage", get_cpu_usage(env.stat))>>
    IN  [ran |-> Ran(steps),
         ret |-> IF FirstRaise(steps) = 0
                 THEN Ret([temperature_celsius |-> steps[1].ret.val,
                           usage_percent |-> steps[2].ret.val])
                 ELSE Outcome(steps, <<>>)]

\* A handler, or a direct call, that is one reader's call.
Single(fn, ret) == [ran |-> <<Step(fn, ret)>>, ret |-> ret]

get_memory(file) == Single("get_memory_info", get_memory_info(file))
get_disk(stat) == Single("get_disk_usage", get_disk_usage(stat))
get_network(file) == Single("get_network_stats", get_network_stats(file))

(***************************************************************************)
(* POST /control/reboot and /control/shutdown.  host is [platform,         *)
(* usr_bin_sudo, sudo]: platform.system() and how a run of /usr/bin/sudo   *)
(* and of sudo ends: "ok", "notfound" (FileNotFoundError), "failed" (a     *)
(* non-zero exit: CalledProcessError) or "oserror" (any other exception).  *)
(***************************************************************************)
\* subprocess.run(argv, check=True)
run(outcome) ==
    IF outcome = "ok" THEN Ret("ok")
    ELSE IF outcome = "notfound" THEN Raise("FileNotFoundError")
    ELSE IF outcome = "failed" THEN Raise("CalledProcessError")
    ELSE Raise("OSError")

\* The bare sudo tried after any failure of /usr/bin/sudo.
FallsBack_AnyFailure(first) == Raised(first)

\* except FileNotFoundError: the bare sudo is tried after this failure only.
FallsBack(first) == first.exc = "FileNotFoundError"

\* The handler of a control endpoint: verb is "reboot" or "shutdown", done
\* its success message, args the command after sudo.
Control(host, verb, args, done) ==
    LET first == run(host.usr_bin_sudo)
        second == run(host.sudo)
        firstStep == Step("/usr/bin/sudo " \o args, first)
        secondStep == Step("sudo " \o args, second)
        success == Ret([status |-> "success", message |-> done])
    IN  IF host.platform # "Linux"
        THEN [ran |-> <<>>,
              ret |-> Ret([status |-> "success",
                           message |-> "Simulated " \o verb \o " (not on Linux)"])]
        ELSE IF ~Raised(first) THEN [ran |-> <<firstStep>>, ret |-> success]
        ELSE IF FallsBack(first)
        THEN [ran |-> <<firstStep, secondStep>>,
              ret |-> IF ~Raised(second) THEN success
                      ELSE IF second.exc = "FileNotFoundError"
                      THEN HTTPException(500,
                               "Command 'sudo' not found. Cannot " \o verb \o ".")
                      ELSE second]
        ELSE IF first.exc = "CalledProcessError"
        THEN [ran |-> <<firstStep>>,
              ret |-> HTTPException(500, "Failed to " \o verb \o ": " \o first.exc)]
        ELSE [ran |-> <<firstStep>>, ret |-> HTTPException(500, first.exc)]

reboot_system(host) == Control(host, "reboot", "reboot", "System is rebooting...")

shutdown_system(host) ==
    Control(host, "shutdown", "shutdown -h now", "System is shutting down...")

Platforms == {"Linux", "Darwin", "Windows"}
RunOutcomes == {"ok", "notfound", "failed", "oserror"}

ControlHosts ==
    {[platform |-> p, usr_bin_sudo |-> a, sudo |-> b] :
        p \in Platforms, a \in RunOutcomes, b \in RunOutcomes}

(***************************************************************************)
(* The sources GET /telemetry is checked on: each source missing, well     *)
(* formed, and in the forms its reader treats apart.                       *)
(***************************************************************************)
WirelessSamples ==
    {[exists |-> FALSE, lines |-> <<>>],
     [exists |-> TRUE, lines |-> <<<<Txt>>, <<Txt>>>>],
     [exists |-> TRUE, lines |-> <<<<Txt>>, <<Txt>>, <<Txt, Num(0), Dot(35), Dot(-56), Dot(-256)>>>>],
     [exists |-> TRUE, lines |-> <<<<Txt>>, <<Txt>>, <<Txt, Num(0), Dot(70), Txt, Dot(-256)>>>>]}

IwconfigSamples ==
    {[status |-> "notfound", out |-> <<>>],
     [status |-> "failed", out |-> <<>>],
     [status |-> "ok", out |-> <<>>],
     [status |-> "ok", out |-> <<[lq |-> Some([eq |-> TRUE, part |-> Ratio(Num(60), Num(70))]),
                                  sl |-> Some([eq |-> TRUE, part |-> Some(Num(-50))])]>>],
     [status |-> "ok", out |-> <<[lq |-> Some([eq |-> TRUE, part |-> Ratio(Num(60), Num(70))]),
                                  sl |-> Some([eq |-> TRUE, part |-> Some(Txt)])]>>],
     [status |-> "ok", out |-> <<[lq |-> Some([eq |-> TRUE, part |-> Ratio(Num(0), Num(0))]),
                                  sl |-> None]>>],
     [status |-> "ok", out |-> <<[lq |-> None,
                                  sl |-> Some([eq |-> TRUE, part |-> None])]>>]}

UptimeSamples ==
    {[exists |-> FALSE, parts |-> <<>>], [exists |-> TRUE, parts |-> <<Num(7200), Num(3600)>>]}

MemInfoSamples ==
    {[exists |-> FALSE, lines |-> <<>>],
     [exists |-> TRUE, lines |-> <<[key |-> "MemTotal", colons |-> 1, value |-> <<Num(2048), Txt>>],
                                   [key |-> "MemAvailable", colons |-> 1, value |-> <<Num(1024), Txt>>]>>],
     [exists |-> TRUE, lines |-> <<[key |-> "Key", colons |-> 1, value |-> <<>>]>>]}

StatPairSamples ==
    {[first |-> [exists |-> FALSE, parts |-> <<>>], second |-> [exists |-> FALSE, parts |-> <<>>]],
     [first |-> [exists |-> TRUE, parts |-> StatLine(0, 0, 0)],
      second |-> [exists |-> TRUE, parts |-> StatLine(1, 0, 1)]]}

VcgencmdSamples ==
    {[status |-> "notfound", out |-> <<>>],
     [status |-> "ok", out |-> [eq |-> TRUE, hex |-> Num(Throttled50000)]],
     [status |-> "ok", out |-> [eq |-> TRUE, hex |-> Txt]]}

NetDevSamples ==
    {[exists |-> FALSE, lines |-> <<>>],
     [exists |-> TRUE, lines |-> <<HeaderLine, HeaderLine,
          [name |-> "wlan0", colon |-> TRUE, data |-> Counters(16, Num(1), Num(2))]>>]}

ThermalSamples == {[exists |-> FALSE, text |-> Txt], [exists |-> TRUE, text |-> Num(45678)]}

LoadSamples == LoadAverages
StatVfsSamples == {v \in StatVfs : v.f_blocks # 0 \/ ~v.ok}
HostSamples == {h \in SystemHosts : h.probe = h.ok}

TelemetryEnvs ==
    [wireless : WirelessSamples, iwconfig : IwconfigSamples, uptime : UptimeSamples,
     meminfo : MemInfoSamples, loadavg : LoadSamples, statvfs : StatVfsSamples,
     host : HostSamples, stat : StatPairSamples, vcgencmd : VcgencmdSamples,
     netdev : NetDevSamples, thermal : ThermalSamples]

CpuEnvs == [thermal : ThermalFiles, stat : StatSamples]

(***************************************************************************)
(* The server: idle between requests; a handler runs to completion on the  *)
(* sources as they are when it runs, and its response is then delivered.   *)
(* The readers are also called on their own, as functions of the module.   *)
(***************************************************************************)
Init ==
    /\ op = "idle"
    /\ input = <<>>
    /\ calls = <<>>
    /\ result = <<>>

\* A request to an endpoint: the handler runs on the sources src.
Handle(name, src, handled) ==
    /\ op' = name
    /\ input' = src
    /\ calls' = handled.ran
    /\ result' = Http(handled.ret)

\* A direct call of a reader: the caller gets its return value or exception.
Call(name, src, ret) ==
    /\ op' = name
    /\ input' = src
    /\ calls' = <<Step(name, ret)>>
    /\ result' = ret

GetTelemetry ==
    /\ op = "idle"
    /\ \E env \in TelemetryEnvs : Handle("get_telemetry", env, get_telemetry(env))

GetCpu ==
    /\ op = "idle"
    /\ \E env \in CpuEnvs : Handle("get_cpu", env, get_cpu(env))

GetMemory ==
    /\ op = "idle"
    /\ \E file \in MemInfoFiles : Handle("get_memory", file, get_memory(file))

GetDisk ==
    /\ op = "idle"
    /\ \E stat \in StatVfs : Handle("get_disk", stat, get_disk(stat))

GetNetwork ==
    /\ op = "idle"
    /\ \E file \in NetDevFiles : Handle("get_network", file, get_network(file))

RebootSystem ==
    /\ op = "idle"
    /\ \E host \in ControlHosts : Handle("reboot_system", host, reboot_system(host))

ShutdownSystem ==
    /\ op = "idle"
    /\ \E host \in ControlHosts : Handle("shutdown_system", host, shutdown_system(host))

CallWifiSignal ==
    /\ op = "idle"
    /\ \E file \in WirelessFiles : Call("get_wifi_signal", file, get_wifi_signal(file))

CallWifiSignalIwconfig ==
    /\ op = "idle"
    /\ \E cmd \in IwconfigRuns :
        Call("get_wifi_signal_iwconfig", cmd, get_wifi_signal_iwconfig(cmd))

CallUptime ==
    /\ op = "idle"
    /\ \E file \in UptimeFiles : Call("get_uptime", file, get_uptime(file))

CallThrottlingStatus ==
    /\ op = "idle"
    /\ \E cmd \in VcgencmdRuns :
        Call("get_throttling_status", cmd, get_throttling_status(cmd))

CallLoadAverage ==
    /\ op = "idle"
    /\ \E os \in LoadAverages : Call("get_load_average", os, get_load_average(os))

CallSystemInfo ==
    /\ op = "idle"
    /\ \E host \in SystemHosts : Call("get_system_info", host, get_system_info(host))

\* The response is sent, or the call has returned: the next one may start.
Deliver ==
    /\ op # "idle"
    /\ op' = "idle"
    /\ input' = <<>>
    /\ calls' = <<>>
    /\ result' = <<>>

Next ==
    \/ GetTelemetry
    \/ GetCpu
    \/ GetMemory
    \/ GetDisk
    \/ GetNetwork
    \/ RebootSystem
    \/ ShutdownSystem
    \/ CallWifiSignal
    \/ CallWifiSignalIwconfig
    \/ CallUptime
    \/ CallThrottlingStatus
    \/ CallLoadAverage
    \/ CallSystemInfo
    \/ Deliver

Spec == Init /\ [][Next]_vars

(***************************************************************************)
(* The claims.                                                             *)
(***************************************************************************)
Handled(name) == op = name
Invoked(fn) == \E i \in 1..Len(calls) : calls[i].fn = fn
SomeCallRaised == \E i \in 1..Len(calls) : Raised(calls[i].ret)
LastCall == calls[Len(calls)]

\* C1: in get_all_telemetry the fallback reader get_wifi_signal_iwconfig is
\* invoked if and only if the primary reader get_wifi_signal returned
\* signal_level = None, and in every resulting snapshot both Wi-Fi fields are
\* those of one reader's result: the fallback's when it ran, else the primary's.
C1_SingleWifiSource ==
    Handled("get_telemetry") =>
        /\ calls[1].fn = "get_wifi_signal"
        /\ Invoked("get_wifi_signal_iwconfig") <=>
               (~Raised(calls[1].ret) /\ calls[1].ret.val.signal_level = None)
        /\ \A i \in 1..Len(calls) : calls[i].fn = "get_wifi_signal_iwconfig" => i = 2
        /\ result.body.status = "success" =>
               LET source == IF Invoked("get_wifi_signal_iwconfig")
                             THEN calls[2].ret.val ELSE calls[1].ret.val
                   wifi == result.body.data[1].wifi
               IN  /\ wifi.signal_level_dbm = source.signal_level
                   /\ wifi.signal_quality_percent = source.signal_quality

\* The primary reader parsed a quality but no level, the fallback ran, and the
\* snapshot carries the fallback's quality, not the primary's.
C1_Witness ==
    /\ Handled("get_telemetry")
    /\ calls[1].ret.val.signal_quality # None
    /\ calls[1].ret.val.signal_level = None
    /\ Invoked("get_wifi_signal_iwconfig")
    /\ result.body.status = "success"
    /\ result.body.data[1].wifi.signal_level_dbm # None
    /\ result.body.data[1].wifi.signal_quality_percent = calls[2].ret.val.signal_quality
    /\ result.body.data[1].wifi.signal_quality_percent # calls[1].ret.val.signal_quality

NeverRaisingReaders ==
    {"get_cpu_temperature", "get_wifi_signal", "get_wifi_signal_iwconfig", "get_uptime",
     "get_memory_info", "get_throttling_status", "get_network_stats"}

\* C2: no reader ever raises to its caller: whatever the content of its source,
\* each call of get_cpu_temperature, get_wifi_signal, get_wifi_signal_iwconfig,
\* get_uptime, get_memory_info, get_throttling_status and get_network_stats
\* returns a value.
C2_NoReaderRaises ==
    \A i \in 1..Len(calls) :
        calls[i].fn \in NeverRaisingReaders => ~Raised(calls[i].ret)

ControlVerb == IF Handled("reboot_system") THEN "reboot" ELSE "shutdown"
HandledControl == Handled("reboot_system") \/ Handled("shutdown_system")

\* C3: on a Linux host, a control request whose command exits non-zero is
\* answered HTTP 500 with the 'Failed to reboot' / 'Failed to shutdown' message,
\* and one whose command cannot be found HTTP 500 with the "Command 'sudo' not
\* found" message, on the first attempt and on the fallback attempt alike.
C3_ControlFailuresReported ==
    (HandledControl /\ input.platform = "Linux") =>
        /\ LastCall.ret.exc = "CalledProcessError" =>
               /\ result.code = 500
               /\ result.body.detail = "Failed to " \o ControlVerb \o ": CalledProcessError"
        /\ LastCall.ret.exc = "FileNotFoundError" =>
               /\ result.code = 500
               /\ result.body.detail =
                      "Command 'sudo' not found. Cannot " \o ControlVerb \o "."

\* C4: when a reader raises during GET /telemetry, the response is the error
\* envelope (status "error", message the exception text) with HTTP status 500.
C4_ReaderErrorIs500 ==
    (Handled("get_telemetry") /\ SomeCallRaised) =>
        /\ result.code = 500
        /\ result.body.status = "error"
        /\ result.body.message = Some(LastCall.ret.exc)

TopLevelFields == {"cpu", "wifi", "system", "memory", "disk", "network"}

\* C5: whatever the state of the sources, the GET /telemetry response is a
\* success envelope whose data holds all six top-level fields.
C5_AlwaysSixFields ==
    Handled("get_telemetry") =>
        /\ result.code = 200
        /\ result.body.status = "success"
        /\ result.body.data # None
        /\ DOMAIN result.body.data[1] = TopLevelFields

\* The interface lines of the file read: those after the two header lines.
C6_Lines == Drop(input.lines, 2)

\* The line the claim chooses: the first with a preferred name, else the first
\* that is not lo; 0 when there is none.
C6_Chosen ==
    LET ls == C6_Lines
        preferred == {i \in 1..Len(ls) : ls[i].name \in {"wlan0", "eth0", "en0"}}
        others == {i \in 1..Len(ls) : ls[i].name # "lo"}
        Least(S) == CHOOSE i \in S : \A j \in S : i <= j
    IN  IF preferred # {} THEN Least(preferred)
        ELSE IF others # {} THEN Least(others) ELSE 0

\* The line has a ':' followed by at least nine fields, the 1st and 9th integers.
C6_HasCounters(line) ==
    /\ line.colon
    /\ Len(line.data) >= 9
    /\ line.data[1].k = "num"
    /\ line.data[9].k = "num"

C6_Placeholder == [interface |-> "none", bytes_recv |-> 0, bytes_sent |-> 0]

\* C6 as stated: for every list of interface lines the chosen line (the first
\* preferred one, else the first that is not lo) is the interface reported, and
\* the placeholder is reported only when there is no such line.
C6_ChosenAlwaysReported ==
    (Handled("get_network") /\ input.exists) =>
        IF C6_Chosen = 0 THEN result.body = C6_Placeholder
        ELSE result.body.interface = C6_Lines[C6_Chosen].name

\* C6, amended: the chosen line (the first preferred one, else the first that is
\* not lo) is the one reported, with its 1st and 9th fields as bytes_recv and
\* bytes_sent, when it has a ':' followed by at least nine fields whose 1st and
\* 9th are integers; when it has not, or there is no such line, or the file is
\* missing, the placeholder is reported.  lo is never reported.
C6_ChosenReportedIfParsable ==
    Handled("get_network") =>
        /\ result.code = 200
        /\ result.body.interface # "lo"
        /\ IF input.exists /\ C6_Chosen # 0 /\ C6_HasCounters(C6_Lines[C6_Chosen])
           THEN result.body = [interface |-> C6_Lines[C6_Chosen].name,
                               bytes_recv |-> C6_Lines[C6_Chosen].data[1].v,
                               bytes_sent |-> C6_Lines[C6_Chosen].data[9].v]
           ELSE result.body = C6_Placeholder

\* A preferred interface listed after another interface is the one reported,
\* with its own counters.
C6_Witness ==
    /\ Handled("get_network")
    /\ Len(C6_Lines) = 2
    /\ C6_Lines[1].name = "usb0"
    /\ C6_HasCounters(C6_Lines[1])
    /\ C6_Lines[2].name = "wlan0"
    /\ result.body.interface = "wlan0"
    /\ result.body.bytes_recv = 1
    /\ result.body.bytes_sent = 2

\* C7: for every pair of /proc/stat samples get_cpu_usage returns a value within
\* 0 and 100 (here in tenths of a percent), and 0 when the two samples are equal.
C7_UsageWithinPercent ==
    Handled("get_cpu") =>
        /\ result.body.usage_percent >= 0
        /\ result.body.usage_percent <= 1000
        /\ input.stat.first = input.stat.second => result.body.usage_percent = 0

\* C8: for every content of /proc/meminfo the result of get_memory_info has
\* total_mb, free_mb, available_mb and used_mb >= 0 and used_percent within 0
\* and 100 (here in hundredths), used_mb and used_percent being derived only
\* when total_mb and available_mb are both positive and 0 otherwise.
C8_MemoryWithinRanges ==
    (Handled("get_memory") /\ result.code = 200) =>
        LET m == result.body
        IN  /\ m.total_mb >= 0
            /\ m.free_mb >= 0
            /\ m.available_mb >= 0
            /\ m.used_mb >= 0
            /\ m.used_percent >= 0
            /\ m.used_percent <= 10000
            /\ IF m.total_mb > 0 /\ m.available_mb > 0
               THEN m.used_mb = m.total_mb - m.available_mb
               ELSE m.used_mb = 0 /\ m.used_percent = 0

\* The status the reader parses: the output holds '=' and a hexadecimal integer.
C9_Parsed ==
    /\ Handled("get_throttling_status")
    /\ input.status = "ok"
    /\ input.out.eq
    /\ input.out.hex.k = "num"

C9_Status == input.out.hex.v

C9_AllFalse ==
    result.val = [is_throttled |-> FALSE, under_voltage |-> FALSE,
                  frequency_capped |-> FALSE, overheated |-> FALSE]

C9_Bits ==
    /\ result.val.under_voltage <=> (C9_Status % 2 = 1)
    /\ result.val.frequency_capped <=> ((C9_Status \div 2) % 2 = 1)
    /\ result.val.overheated <=> ((C9_Status \div 4) % 2 = 1)

C9_AnySpecific ==
    result.val.under_voltage \/ result.val.frequency_capped \/ result.val.overheated

\* C9 as stated: the three specific flags are bits 0, 1 and 2 of the parsed
\* status, is_throttled is true exactly when the status is non-zero, and
\* whenever a specific flag is true is_throttled is true.
C9_ThrottledIffNonZero ==
    C9_Parsed =>
        /\ ~Raised(result)
        /\ C9_Bits
        /\ result.val.is_throttled <=> (C9_Status # 0)
        /\ C9_AnySpecific => result.val.is_throttled

\* C9, amended: the three specific flags are bits 0, 1 and 2 of the parsed
\* status and is_throttled is true exactly when the status is greater than
\* zero: status 0x0 gives all four flags false, 0x50000 gives is_throttled alone,
\* and for a status that is not negative a specific flag implies is_throttled.
\* When the tool is absent or exits non-zero all four flags are false.
C9_ThrottledIffPositive ==
    /\ C9_Parsed =>
           /\ ~Raised(result)
           /\ C9_Bits
           /\ result.val.is_throttled <=> (C9_Status > 0)
           /\ (C9_Status >= 0 /\ C9_AnySpecific) => result.val.is_throttled
           /\ C9_Status = 0 => C9_AllFalse
           /\ C9_Status = 327680 => (result.val.is_throttled /\ ~C9_AnySpecific)
    /\ (Handled("get_throttling_status") /\ input.status \in {"notfound", "failed"}) =>
           (~Raised(result) /\ C9_AllFalse)

\* Status 0x50002: is_throttled and frequency_capped alone among the specific flags.
C9_Witness ==
    /\ C9_Parsed
    /\ C9_Status = 327682
    /\ result.val = [is_throttled |-> TRUE, under_voltage |-> FALSE,
                     frequency_capped |-> TRUE, overheated |-> FALSE]

\* C10: on a host that is not Linux a control request answers the simulated
\* success and invokes no command; on Linux it invokes /usr/bin/sudo first, at
\* most two commands, and the bare sudo only after /usr/bin/sudo was not found.
C10_CommandsInvoked ==
    HandledControl =>
        IF input.platform # "Linux"
        THEN /\ calls = <<>>
             /\ result.code = 200
             /\ result.body = [status |-> "success",
                               message |-> "Simulated " \o ControlVerb \o " (not on Linux)"]
        ELSE /\ Len(calls) \in {1, 2}
             /\ calls[1].fn = "/usr/bin/sudo " \o
                    (IF Handled("reboot_system") THEN "reboot" ELSE "shutdown -h now")
             /\ Len(calls) = 2 =>
                    /\ calls[1].ret.exc = "FileNotFoundError"
                    /\ calls[2].fn = "sudo " \o
                           (IF Handled("reboot_system") THEN "reboot" ELSE "shutdown -h now")
             /\ calls[1].ret.exc = "CalledProcessError" => Len(calls) = 1

\* On Linux /usr/bin/sudo was not found and the bare sudo ran the shutdown.
C10_Witness ==
    /\ Handled("shutdown_system")
    /\ input.platform = "Linux"
    /\ Len(calls) = 2
    /\ calls[1].ret.exc = "FileNotFoundError"
    /\ calls[2].fn = "sudo shutdown -h now"
    /\ result.code = 200


(***************************************************************************)
(* get_wifi_signal on its own: complete or empty readings.                 *)
(***************************************************************************)
\* The 3rd line of /proc/net/wireless, when the file has one.
C11_DataLine == IF input.exists /\ Len(input.lines) > 2 THEN input.lines[3] ELSE <<>>

\* The file gives a complete reading: it exists, has 3 lines, 4 fields on the
\* 3rd and both the quality and the signal-level field are numeric.
C11_Complete ==
    /\ Len(C11_DataLine) >= 4
    /\ ~Raised(int(rstrip(C11_DataLine[3])))
    /\ ~Raised(int(rstrip(C11_DataLine[4])))

\* C11: get_wifi_signal returns both fields None whenever the file gives no
\* complete reading, and never a result with exactly one of the two fields set.
C11_BothOrNeither ==
    Handled("get_wifi_signal") =>
        /\ ~Raised(result)
        /\ ~C11_Complete => result.val = NoWifi
        /\ (result.val.signal_level = None) <=> (result.val.signal_quality = None)

\* What the reader does hold to: the signal level is set only in a complete
\* reading, and an unparsable quality leaves both fields None.
C11_LevelOnlyWhenComplete ==
    Handled("get_wifi_signal") =>
        /\ ~Raised(result)
        /\ result.val.signal_level # None => (C11_Complete /\ result.val.signal_quality # None)
        /\ (Len(C11_DataLine) < 4 \/ Raised(int(rstrip(C11_DataLine[3])))) =>
               result.val = NoWifi

\* Quality '35.' and a signal level that is no number: the quality alone is set.
C11_PartialReading ==
    /\ Handled("get_wifi_signal")
    /\ Len(C11_DataLine) >= 4
    /\ C11_DataLine[3] = Dot(35)
    /\ C11_DataLine[4] = Txt
    /\ result.val = [signal_level |-> None, signal_quality |-> Some(5000)]

=============================================================================
